---- MODULE Spec2Model ----
(***************************************************************************)
(* Verification model of oh-my-codex.                                      *)
(*                                                                         *)
(* Part 1: the team phase state machine (src/src/team/orchestrator.ts).    *)
(* A TeamState is a JavaScript object.  transitionPhase receives a         *)
(* reference to one and returns a fresh object, so the model keeps both    *)
(* the object the caller passed (input) and the object it got back         *)
(* (state), together with a snapshot of the argument taken before the      *)
(* call (before).                                                          *)
(***************************************************************************)
EXTENDS Integers, Sequences, FiniteSets, TLC

\* ------------------------------------------------------------------ bounds
\* Largest maxFixAttempts a caller passes to createTeamState.
MaxFixAttempts == 2
\* Largest reading of the wall clock (new Date()).
MaxClock == 1
\* Number of mailbox-layer calls a coordinator makes.
MaxCalls == 2

\* --------------------------------------------------------------- constants
\* Default of createTeamState's maxFixAttempts parameter.
DefaultMaxFixAttempts == 3

\* ------------------------------------------------------------------- types
TeamPhase == {"team-plan", "team-prd", "team-exec", "team-verify", "team-fix"}
TerminalPhase == {"complete", "failed", "cancelled"}
Phases == TeamPhase \cup TerminalPhase

\* The optional `reason` parameter when the caller leaves it out.
undefined == "undefined"
\* Reasons a caller passes: callers explain a request to go back to team-fix
\* (or leave the reason out) and pass no reason otherwise, as the tests do.
Reasons(to) == IF to = "team-fix" THEN {undefined, "needs fixes"} ELSE {undefined}
\* Task descriptions a caller passes.
TaskDescription == "task"

\* Array.prototype.includes
includes(arr, x) == \E i \in DOMAIN arr : arr[i] = x

\* ------------------------------------------------- orchestrator.ts: rules
\* Mutant: team-exec may also finish the team directly.
TRANSITIONS_ExecCompletes ==
  [p \in TeamPhase |->
     CASE p = "team-plan"   -> <<"team-prd">>
       [] p = "team-prd"    -> <<"team-exec">>
       [] p = "team-exec"   -> <<"team-verify", "complete">>
       [] p = "team-verify" -> <<"team-fix", "complete", "failed">>
       [] p = "team-fix"    -> <<"team-exec", "team-verify", "complete", "failed">>]

\* Mutant: every listed phase may also move to cancelled.
TRANSITIONS_WithCancelled ==
  [p \in TeamPhase |->
     CASE p = "team-plan"   -> <<"team-prd", "cancelled">>
       [] p = "team-prd"    -> <<"team-exec", "cancelled">>
       [] p = "team-exec"   -> <<"team-verify", "cancelled">>
       [] p = "team-verify" -> <<"team-fix", "complete", "failed", "cancelled">>
       [] p = "team-fix"    -> <<"team-exec", "team-verify", "complete", "failed",
                                 "cancelled">>]

TRANSITIONS ==
  [p \in TeamPhase |->
     CASE p = "team-plan"   -> <<"team-prd">>
       [] p = "team-prd"    -> <<"team-exec">>
       [] p = "team-exec"   -> <<"team-verify">>
       [] p = "team-verify" -> <<"team-fix", "complete", "failed">>
       [] p = "team-fix"    -> <<"team-exec", "team-verify", "complete", "failed">>]

\* Mutant: a phase without an entry falls back to the team-fix entry.
allowed_FallsBack(from) ==
  IF from \in DOMAIN TRANSITIONS THEN TRANSITIONS[from] ELSE TRANSITIONS["team-fix"]

\* TRANSITIONS[from]; undefined (here the empty list, which `allowed ? ... :
\* false` treats alike) for a key the table does not have.
allowed(from) == IF from \in DOMAIN TRANSITIONS THEN TRANSITIONS[from] ELSE <<>>

isValidTransition(from, to) == includes(allowed(from), to)

createTeamState(taskDescription, maxFixAttempts, at) ==
  [ active              |-> TRUE,
    phase               |-> "team-plan",
    task_description    |-> taskDescription,
    created_at          |-> at,
    phase_transitions   |-> <<>>,
    tasks               |-> <<>>,
    max_fix_attempts    |-> maxFixAttempts,
    current_fix_attempt |-> 0 ]

\* The message of the Error thrown on an invalid transition.
InvalidTransitionMessage(from, to) == "Invalid transition: " \o from \o " -> " \o to

\* The reason recorded when the fix loop is exhausted.
overflowReason(s) == "Max fix attempts exceeded"

\* Mutant: off by one, the limit is reached one attempt late.
fixLoopExhausted_OffByOne(s) == s.current_fix_attempt > s.max_fix_attempts

\* The guard of the fix-loop overflow branch.
fixLoopExhausted(s) == s.current_fix_attempt >= s.max_fix_attempts

\* Mutant: failed is not counted as terminal.
isTerminal_FailedMissing(to) == includes(<<"complete", "cancelled">>, to)

\* The terminal test applied to the requested phase.
isTerminal(to) == includes(<<"complete", "failed", "cancelled">>, to)

\* transitionPhase throws exactly when the transition is not valid.
transitionThrows(s, to) == ~isValidTransition(s.phase, to)

\* Mutant: the attempt is never counted.
transitionArgument_NoCount(s, to) == s

\* The argument object after the call: `state.current_fix_attempt++` runs on
\* the caller's object when team-fix is entered below the limit.
transitionArgument(s, to) ==
  IF ~transitionThrows(s, to) /\ to = "team-fix" /\ ~fixLoopExhausted(s)
  THEN [s EXCEPT !.current_fix_attempt = @ + 1]
  ELSE s

\* The object transitionPhase returns (when it does not throw).
transitionResult(s, to, reason, at) ==
  LET from == s.phase IN
  IF to = "team-fix" /\ fixLoopExhausted(s)
  THEN [s EXCEPT !.phase = "failed",
                 !.active = FALSE,
                 !.phase_transitions =
                    Append(@, [from |-> from, to |-> "failed", at |-> at,
                               reason |-> overflowReason(s)])]
  ELSE [transitionArgument(s, to) EXCEPT
                 !.phase = to,
                 !.active = ~isTerminal(to),
                 !.phase_transitions =
                    Append(@, [from |-> from, to |-> to, at |-> at,
                               reason |-> reason])]

\* ------------------------------------------------------------------- state
VARIABLES
  state,     \* the team state the caller holds: the latest object returned
  input,     \* the object passed to the latest call, as it is after the call
  before,    \* the value that object had when the call was made
  request,   \* the latest call's `to` and `reason`
  outcome,   \* how the latest call ended
  now        \* the wall clock

teamVars == <<state, input, before, request, outcome, now>>

NoCall == [kind |-> "none", message |-> ""]

TeamInit ==
  /\ now = 0
  /\ \E max \in 0..MaxFixAttempts :
        state = createTeamState(TaskDescription, max, 0)
  /\ input = state
  /\ before = state
  /\ request = [to |-> "team-plan", reason |-> undefined]
  /\ outcome = NoCall

\* One call transitionPhase(s, to, reason), s being an object the caller holds.
Call(s, to, reason) ==
  /\ before' = s
  /\ request' = [to |-> to, reason |-> reason]
  /\ input' = transitionArgument(s, to)
  /\ IF transitionThrows(s, to)
     THEN /\ outcome' = [kind |-> "threw",
                         message |-> InvalidTransitionMessage(s.phase, to)]
          /\ state' = state
     ELSE /\ outcome' = [kind |-> "returned", message |-> ""]
          /\ state' = transitionResult(s, to, reason, now)
  /\ now' = now

\* The caller advances the team state it holds.
transitionPhase ==
  \E to \in Phases : \E reason \in Reasons(to) : Call(state, to, reason)

\* The caller calls again on the object it passed last time, which it still
\* holds (as the tests do with `verify` after `transitionPhase(verify, ...)`).
transitionPhaseAgain ==
  /\ outcome.kind = "returned"
  /\ \E to \in Phases : \E reason \in Reasons(to) : Call(input, to, reason)

\* A caller builds a terminal state by hand, as orchestrator.test.ts does:
\* { ...createTeamState(task), phase, active: false }.
buildTerminalState ==
  \E phase \in {"failed", "cancelled"} :
    /\ state' = [createTeamState(TaskDescription, DefaultMaxFixAttempts, now)
                   EXCEPT !.phase = phase, !.active = FALSE]
    /\ input' = state'
    /\ before' = state'
    /\ request' = [to |-> "team-plan", reason |-> undefined]
    /\ outcome' = NoCall
    /\ now' = now

\* Time passes.
Tick ==
  /\ now < MaxClock
  /\ now' = now + 1
  /\ UNCHANGED <<state, input, before, request, outcome>>

(***************************************************************************)
(* Part 2: the mailbox communication layer (mcp-comm.ts, the first 83      *)
(* lines of src/unnamed/part_009).  Its three operations are async          *)
(* functions: each `await` is a point where other calls may run, so a call *)
(* is a small process with a program counter.  The store operations it     *)
(* awaits (team-ops.js) and the notifier it is handed are collaborators:   *)
(* the store is modelled from the specification, the notifier resolves to  *)
(* either boolean.                                                         *)
(***************************************************************************)
\* The team's roster, in the order of its configuration.
WorkerOrder == <<"worker-1", "worker-2", "worker-3">>
Workers == {WorkerOrder[i] : i \in DOMAIN WorkerOrder}

\* Inbox documents and message bodies.
InitialInbox == "# previous"
InboxContents == {"# hi", "# again"}
Bodies == {"hello"}

\* An optional field: <<>> when absent, <<v>> when set.
Absent == <<>>
Set(v) == <<v>>

\* ---------------------------------------------- the store (team-ops.js)
\* teamWriteWorkerInbox: the inbox document is overwritten in place.
writeWorkerInbox(inb, workerName, content) == [inb EXCEPT ![workerName] = content]

NewMessage(id, from, to, body, at) ==
  [ message_id  |-> id,
    from_worker |-> from,
    to_worker   |-> to,
    body        |-> body,
    created_at  |-> at,
    notified_at |-> Absent ]

\* Mutant: the mailbox is rewritten with the new message alone.
sendDirectMessage_Overwrites(mb, message) ==
  [mb EXCEPT ![message.to_worker] = <<message>>]

\* teamSendMessage: one message appended to the recipient's mailbox.
sendDirectMessage(mb, message) ==
  [mb EXCEPT ![message.to_worker] = Append(@, message)]

\* Mutant: the sender gets a copy of its own broadcast.
broadcastMessages_SenderToo(order, from, body, id, at) ==
  [i \in 1..Len(order) |-> NewMessage(id + i - 1, from, order[i], body, at)]

\* teamBroadcast: one message per worker of the roster other than the sender,
\* with consecutive ids starting at `id`.
RECURSIVE broadcastMessages(_, _, _, _, _)
broadcastMessages(order, from, body, id, at) ==
  IF order = <<>> THEN <<>>
  ELSE IF Head(order) = from
       THEN broadcastMessages(Tail(order), from, body, id, at)
       ELSE <<NewMessage(id, from, Head(order), body, at)>>
              \o broadcastMessages(Tail(order), from, body, id + 1, at)

RECURSIVE storeAll(_, _)
storeAll(mb, messages) ==
  IF messages = <<>> THEN mb
  ELSE storeAll(sendDirectMessage(mb, Head(messages)), Tail(messages))

\* teamMarkMessageNotified: stamps notified_at on the message with that id in
\* that worker's mailbox.
markMessageNotified(mb, workerName, id, at) ==
  [mb EXCEPT ![workerName] =
     [k \in DOMAIN @ |->
        IF @[k].message_id = id THEN [@[k] EXCEPT !.notified_at = Set(at)]
        ELSE @[k]]]

\* ------------------------------------------------------ mcp-comm.ts
\* Mutant: the notifier is called before the inbox is written.
queueInboxOrder_NotifyFirst == <<"notify", "write">>

\* The awaited statements of queueInboxInstruction, in order.
queueInboxOrder == <<"write", "notify">>

\* Mutant: the message is marked whatever the notifier resolved to.
shouldMark_Always(notified) == TRUE

\* `if (notified)`: the guard of markMessageNotified.
shouldMark(notified) == notified

\* Mutant: a message is notified whether or not its recipient is listed.
recipientListed_Always(recipients, message) == TRUE

\* `recipientByName.get(message.to_worker)` finds a recipient.
recipientListed(recipients, message) == message.to_worker \in recipients

\* The index of the first message from i on whose recipient is listed
\* (`if (!recipient) continue;`), Len + 1 when there is none.
RECURSIVE nextListed(_, _, _)
nextListed(messages, recipients, i) ==
  IF i > Len(messages) THEN i
  ELSE IF recipientListed(recipients, messages[i]) THEN i
       ELSE nextListed(messages, recipients, i + 1)

VARIABLES
  inboxes,        \* workers/<worker>/inbox.md of every worker
  mailboxes,      \* the mailbox of every worker: a list of messages
  nextMessageId,  \* the store's source of unique message ids
  calls,          \* the mailbox-layer calls: parameters and progress
  notifications,  \* the invocations of the notifier by the calls not yet forgotten
  acknowledged    \* the messages whose notification has ever resolved true

mailVars == <<inboxes, mailboxes, nextMessageId, calls, notifications, acknowledged>>

CallIds == 1..MaxCalls

IdleCall ==
  [ op |-> "idle", pc |-> "idle", ip |-> 0, from |-> "", to |-> "",
    recipients |-> {}, content |-> "", messages |-> <<>>, i |-> 0,
    notified |-> FALSE, result |-> Absent,
    \* not part of the call: the mailboxes as they were when it was made
    mailboxesBefore |-> <<>> ]

MailInit ==
  /\ inboxes = [w \in Workers |-> InitialInbox]
  /\ mailboxes = [w \in Workers |-> <<>>]
  /\ nextMessageId = 1
  /\ calls = [c \in CallIds |-> IdleCall]
  /\ notifications = {}
  /\ acknowledged = {}

InFlight(c) == calls[c].pc \notin {"idle", "done"}

\* The coordinator awaits each call before it makes the next one; the calls
\* are numbered in the order they are made.
MayStart(c) ==
  /\ calls[c].pc = "idle"
  /\ \A d \in CallIds : ~InFlight(d)
  /\ \A d \in CallIds : d < c => calls[d].pc = "done"

\* A call that has returned and whose result the coordinator has consumed.
ForgottenCall == [IdleCall EXCEPT !.pc = "done"]

\* Call c starts as `call`; the frames of the calls that returned are gone.
Start(c, call) ==
  /\ calls' = [d \in CallIds |->
                 IF d = c THEN [call EXCEPT !.mailboxesBefore = mailboxes]
                 ELSE IF calls[d].pc = "done" THEN ForgottenCall ELSE calls[d]]
  /\ notifications' = {a \in notifications : InFlight(a.call)}

\* The message a stored id names, wherever it is.
Stored(id) ==
  \E w \in Workers : \E k \in DOMAIN mailboxes[w] : mailboxes[w][k].message_id = id

\* One invocation of params.notify by call c, resolving to ok.
Notify(c, workerName, id, ok) ==
  /\ notifications' = notifications \cup
       {[ call      |-> c,
          n         |-> Cardinality({a \in notifications : a.call = c}) + 1,
          worker    |-> workerName,
          message   |-> id,
          ok        |-> ok,
          inboxThen |-> inboxes[workerName],
          stored    |-> id = 0 \/ Stored(id) ]}
  /\ acknowledged' = IF ok /\ id # 0
                     THEN acknowledged \cup {[worker |-> workerName, message |-> id]}
                     ELSE acknowledged

\* The step of queueInboxInstruction after its ip-th statement.
InboxPc(ip) == IF ip <= Len(queueInboxOrder) THEN queueInboxOrder[ip] ELSE "done"

\* ---- queueInboxInstruction
queueInboxInstruction(c) ==
  /\ MayStart(c)
  /\ \E w \in Workers, content \in InboxContents :
        Start(c, [IdleCall EXCEPT !.op = "inbox", !.to = w, !.content = content,
                                  !.ip = 1, !.pc = InboxPc(1)])
  /\ UNCHANGED <<inboxes, mailboxes, nextMessageId, acknowledged>>

InboxWrite(c) ==
  /\ calls[c].op = "inbox" /\ calls[c].pc = "write"
  /\ inboxes' = writeWorkerInbox(inboxes, calls[c].to, calls[c].content)
  /\ calls' = [calls EXCEPT ![c].ip = @ + 1, ![c].pc = InboxPc(calls[c].ip + 1)]
  /\ UNCHANGED <<mailboxes, nextMessageId, notifications, acknowledged>>

InboxNotify(c) ==
  /\ calls[c].op = "inbox" /\ calls[c].pc = "notify"
  /\ \E ok \in BOOLEAN :
        /\ Notify(c, calls[c].to, 0, ok)
        /\ calls' = [calls EXCEPT ![c].ip = @ + 1, ![c].pc = InboxPc(calls[c].ip + 1),
                                  ![c].notified = ok, ![c].result = Set(ok)]
  /\ UNCHANGED <<inboxes, mailboxes, nextMessageId>>

\* queueInboxInstruction called while other calls are still in flight (a
\* caller that does not await one call before making the next): the calls
\* that returned are kept, so that what each of them wrote stays known.
queueInboxInstructionConcurrent(c) ==
  /\ calls[c].pc = "idle"
  /\ \E w \in Workers, content \in InboxContents :
        calls' = [calls EXCEPT ![c] =
                    [IdleCall EXCEPT !.op = "inbox", !.to = w,
                                     !.content = content, !.ip = 1,
                                     !.pc = InboxPc(1),
                                     !.mailboxesBefore = mailboxes]]
  /\ UNCHANGED <<inboxes, mailboxes, nextMessageId, notifications, acknowledged>>

\* ---- queueDirectMailboxMessage
queueDirectMailboxMessage(c) ==
  /\ MayStart(c)
  /\ \E from \in Workers, to \in Workers, body \in Bodies :
        Start(c, [IdleCall EXCEPT !.op = "direct", !.from = from, !.to = to,
                                  !.content = body, !.pc = "store"])
  /\ UNCHANGED <<inboxes, mailboxes, nextMessageId, acknowledged>>

DirectStore(c) ==
  /\ calls[c].op = "direct" /\ calls[c].pc = "store"
  /\ LET message == NewMessage(nextMessageId, calls[c].from, calls[c].to,
                                calls[c].content, now) IN
       /\ mailboxes' = sendDirectMessage(mailboxes, message)
       /\ calls' = [calls EXCEPT ![c].messages = <<message>>, ![c].i = 1,
                                 ![c].pc = "notify"]
  /\ nextMessageId' = nextMessageId + 1
  /\ UNCHANGED <<inboxes, notifications, acknowledged>>

DirectNotify(c) ==
  /\ calls[c].op = "direct" /\ calls[c].pc = "notify"
  /\ \E ok \in BOOLEAN :
        /\ Notify(c, calls[c].to, calls[c].messages[1].message_id, ok)
        /\ calls' = [calls EXCEPT ![c].notified = ok,
                                  ![c].pc = IF shouldMark(ok) THEN "mark" ELSE "done"]
  /\ UNCHANGED <<inboxes, mailboxes, nextMessageId>>

DirectMark(c) ==
  /\ calls[c].op = "direct" /\ calls[c].pc = "mark"
  /\ mailboxes' = markMessageNotified(mailboxes, calls[c].to,
                                      calls[c].messages[1].message_id, now)
  /\ calls' = [calls EXCEPT ![c].pc = "done"]
  /\ UNCHANGED <<inboxes, nextMessageId, notifications, acknowledged>>

\* ---- queueBroadcastMailboxMessage
\* The loop moves on to message i: it notifies it, or the loop is over.
LoopAt(call, i) ==
  LET j == nextListed(call.messages, call.recipients, i) IN
  [call EXCEPT !.i = j, !.pc = IF j > Len(call.messages) THEN "done" ELSE "notify"]

\* Mutant: the loop ends at the first notification that is not marked.
afterUnmarked_Stops(call) == [call EXCEPT !.pc = "done"]

\* A notification that resolved false: the loop goes on with the next message.
afterUnmarked(call) == LoopAt(call, call.i + 1)

queueBroadcastMailboxMessage(c) ==
  /\ MayStart(c)
  /\ \E from \in Workers, recipients \in SUBSET Workers, body \in Bodies :
        Start(c, [IdleCall EXCEPT !.op = "broadcast", !.from = from,
                                  !.recipients = recipients, !.content = body,
                                  !.pc = "store"])
  /\ UNCHANGED <<inboxes, mailboxes, nextMessageId, acknowledged>>

BroadcastStore(c) ==
  /\ calls[c].op = "broadcast" /\ calls[c].pc = "store"
  /\ LET messages == broadcastMessages(WorkerOrder, calls[c].from, calls[c].content,
                                        nextMessageId, now) IN
       /\ mailboxes' = storeAll(mailboxes, messages)
       /\ nextMessageId' = nextMessageId + Len(messages)
       /\ calls' = [calls EXCEPT ![c] = LoopAt([@ EXCEPT !.messages = messages], 1)]
  /\ UNCHANGED <<inboxes, notifications, acknowledged>>

BroadcastNotify(c) ==
  /\ calls[c].op = "broadcast" /\ calls[c].pc = "notify"
  /\ LET message == calls[c].messages[calls[c].i] IN
     \E ok \in BOOLEAN :
        /\ Notify(c, message.to_worker, message.message_id, ok)
        /\ calls' = [calls EXCEPT ![c] =
                       IF shouldMark(ok)
                       THEN [@ EXCEPT !.notified = ok, !.pc = "mark"]
                       ELSE afterUnmarked([@ EXCEPT !.notified = ok])]
  /\ UNCHANGED <<inboxes, mailboxes, nextMessageId>>

BroadcastMark(c) ==
  /\ calls[c].op = "broadcast" /\ calls[c].pc = "mark"
  /\ LET message == calls[c].messages[calls[c].i] IN
       mailboxes' = markMessageNotified(mailboxes, message.to_worker,
                                        message.message_id, now)
  /\ calls' = [calls EXCEPT ![c] = LoopAt(@, @.i + 1)]
  /\ UNCHANGED <<inboxes, nextMessageId, notifications, acknowledged>>

\* ==================================================== Part 3: leader nudge
\* hooks/team-leader-nudge (src/docs/hooks-extension.md, lines 438-642).

\* Bounds.
MaxTicks == 2
MaxMessages == 2

\* Guard of resolveLeaderNudgeIntervalMs: [10 s, 30 min], default 2 min.
MinIntervalMs == 10000
MaxIntervalMs == 1800000
DefaultIntervalMs == 120000
\* Default of resolveLeaderStalenessThresholdMs: 3 min.
DefaultStalenessMs == 180000
\* Time between two leader turns.
TickMs == 60000

TeamNames == <<"alpha", "beta">>
NudgeTeams == {TeamNames[i] : i \in 1..Len(TeamNames)}
TmuxSession == "omx-team:0"
\* team-state.json (active) and manifest.v2.json / config.json (tmux_session).
TeamConfigs ==
  { [active |-> TRUE, tmux_session |-> TmuxSession],
    [active |-> FALSE, tmux_session |-> TmuxSession],
    [active |-> TRUE, tmux_session |-> ""] }
\* The text of an environment variable: unset (read as ''), the decimal
\* text of a number, or any other text.
EnvUnset == [kind |-> "unset", value |-> 0]
EnvText == [kind |-> "text", value |-> 0]
EnvNumber(n) == [kind |-> "number", value |-> n]
\* OMX_TEAM_LEADER_NUDGE_MS: unset, or a value in the range.
NudgeEnvValues == {EnvUnset, EnvNumber(TickMs)}
\* The empty message id ''.
NoId == 0

\* utils.js: the number a text stands for, or null.
asNumber(raw) == IF raw.kind = "number" THEN Set(raw.value) ELSE Absent

resolveLeaderNudgeIntervalMs(env) ==
  LET parsed == asNumber(env)
  IN IF parsed # Absent /\ parsed[1] >= MinIntervalMs
                        /\ parsed[1] <= MaxIntervalMs
     THEN parsed[1]
     ELSE DefaultIntervalMs

\* Mutant: any number is taken as the threshold.
resolveLeaderStalenessThresholdMs_Unclamped(env) ==
  IF asNumber(env) # Absent THEN asNumber(env)[1] ELSE DefaultStalenessMs

resolveLeaderStalenessThresholdMs(env) ==
  LET parsed == asNumber(env)
  IN IF parsed # Absent /\ parsed[1] >= MinIntervalMs
                        /\ parsed[1] <= MaxIntervalMs
     THEN parsed[1]
     ELSE DefaultStalenessMs

newestId(messages) ==
  IF Len(messages) > 0 THEN messages[Len(messages)].message_id ELSE NoId

prevMsgId(prev) == IF prev = Absent THEN NoId ELSE prev[1].last_message_id

hasNewMessage(newest, prevId) == newest # NoId /\ newest # prevId

\* Date.parse of the record's ISO time gives back the milliseconds that
\* toISOString was given; Date.parse('') is NaN, which is not finite.
dueByTime(prev, nowAt, intervalMs) ==
  prev = Absent \/ nowAt - prev[1].at >= intervalMs

\* Mutant: a stale leader with live panes is nudged whatever the rate limit.
shouldNudge_StaleAlone(has, due, stalePanesNudge) ==
  has \/ due \/ stalePanesNudge

\* if (!hasNewMessage && !dueByTime) continue;
shouldNudge(has, due, stalePanesNudge) == has \/ due

\* Mutant: a new message outranks staleness.
nudgeReason_MessageFirst(stalePanesNudge, has) ==
  IF has THEN "new_mailbox_message"
  ELSE IF stalePanesNudge THEN "stale_leader_panes_alive"
  ELSE "periodic_check"

nudgeReason(stalePanesNudge, has) ==
  IF stalePanesNudge /\ has THEN "stale_leader_with_messages"
  ELSE IF stalePanesNudge THEN "stale_leader_panes_alive"
  ELSE IF has THEN "new_mailbox_message"
  ELSE "periodic_check"

\* Mutant: the error of a failed send leaves maybeNudgeTeamLeader.
onSendFailure_Rethrown == "thrown"

\* catch (err) { logTmuxHookEvent(... error ...) }
onSendFailure == "caught"

\* The record is assigned after the three send-keys calls, inside the try.
recordAfterSend(sendOk, prev, newest, nowAt) ==
  IF sendOk
  THEN Set([at |-> nowAt,
            last_message_id |-> IF newest # NoId THEN newest
                                ELSE prevMsgId(prev)])
  ELSE prev

\* sentNudges is a history variable: per team, the time of the last nudge
\* that tmux delivered and the number of leader messages there were then.
VARIABLES nudgeEnv, teamDocs, leaderMailbox, nudgeDoc, nowMs, lastRun,
          sentNudges
nudgeVars ==
  <<nudgeEnv, teamDocs, leaderMailbox, nudgeDoc, nowMs, lastRun, sentNudges>>

NoRun == [ran |-> FALSE]

\* What one iteration of the loop did with a team.
Skipped(status) ==
  [status |-> status, stalePanesNudge |-> FALSE, newestId |-> NoId,
   prev |-> Absent, reason |-> "", logged |-> "none", event |-> FALSE]

NudgeIdle ==
  /\ nudgeEnv = EnvUnset
  /\ teamDocs = [t \in NudgeTeams |-> [active |-> FALSE, tmux_session |-> ""]]
  /\ leaderMailbox = [t \in NudgeTeams |-> <<>>]
  /\ nudgeDoc = [t \in NudgeTeams |-> Absent]
  /\ nowMs = 0
  /\ lastRun = NoRun
  /\ sentNudges = [t \in NudgeTeams |-> Absent]

NudgeInit ==
  /\ nudgeEnv \in NudgeEnvValues
  /\ teamDocs \in [NudgeTeams -> TeamConfigs]
  /\ leaderMailbox = [t \in NudgeTeams |-> <<>>]
  /\ nudgeDoc = [t \in NudgeTeams |-> Absent]
  /\ nowMs = 0
  /\ lastRun = NoRun
  /\ sentNudges = [t \in NudgeTeams |-> Absent]

\* Lines 559-638 for a team that is active and has a tmux target.
nudgeTeam(prev, newest, stalePanesNudge, sendOk) ==
  LET has == hasNewMessage(newest, prevMsgId(prev))
      due == dueByTime(prev, nowMs, resolveLeaderNudgeIntervalMs(nudgeEnv))
      seen == [status |-> "quiet", stalePanesNudge |-> stalePanesNudge,
               newestId |-> newest, prev |-> prev, reason |-> "",
               logged |-> "none", event |-> FALSE]
  IN IF ~shouldNudge(has, due, stalePanesNudge) THEN seen
     ELSE [seen EXCEPT !.status = IF sendOk THEN "sent" ELSE "failed",
                       !.reason = nudgeReason(stalePanesNudge, has),
                       !.logged = IF sendOk THEN "nudge" ELSE "error",
                       !.event = sendOk]

\* Mutant: every team with a state document counts as active.
isActiveTeam_Always(doc) == TRUE

\* if (!parsed || parsed.active !== true) continue;
isActiveTeam(doc) == doc.active = TRUE

\* One iteration of `for (const teamName of activeTeamNames)`.
evaluateTeam(teamName, prev, leaderStale, alive, sendOk) ==
  IF ~isActiveTeam(teamDocs[teamName]) THEN Skipped("not_active")
  ELSE IF teamDocs[teamName].tmux_session = "" THEN Skipped("no_target")
  ELSE nudgeTeam(prev, newestId(leaderMailbox[teamName]),
                 alive /\ leaderStale, sendOk)

\* The state of the run after the iteration that gave r for teamName.
afterTeam(run, teamName, r) ==
  [mem |-> IF r.status \in {"sent", "failed"}
           THEN [run.mem EXCEPT ![teamName] =
                   recordAfterSend(r.status = "sent", r.prev, r.newestId,
                                   nowMs)]
           ELSE run.mem,
   teams |-> [run.teams EXCEPT ![teamName] = r],
   thrown |-> r.status = "failed" /\ onSendFailure = "thrown"]

\* The loop over the active teams, in the order of the state directories;
\* a thrown error ends it.
RECURSIVE runTeams(_, _, _, _, _)
runTeams(i, run, leaderStale, alive, sendOk) ==
  IF i > Len(TeamNames) \/ run.thrown THEN run
  ELSE LET teamName == TeamNames[i]
       IN CHOOSE next \in
            { runTeams(i + 1, afterTeam(run, teamName, r), leaderStale,
                       alive, sendOk) :
              r \in {evaluateTeam(teamName, run.mem[teamName], leaderStale,
                                  alive[teamName], sendOk[teamName])} } : TRUE

\* What tmux answers per team (list-panes finds panes, send-keys succeeds);
\* it is asked only about a session that an active team records.
TmuxAnswers ==
  { f \in [NudgeTeams -> BOOLEAN] :
      \A t \in NudgeTeams :
        f[t] => teamDocs[t].active /\ teamDocs[t].tmux_session # "" }

\* maybeNudgeTeamLeader({ cwd, stateDir, logsDir, preComputedLeaderStale });
\* the final writeFile is taken to succeed.
maybeNudgeTeamLeader ==
  \E preComputedLeaderStale \in {Absent, Set(TRUE), Set(FALSE)},
     alive \in TmuxAnswers,
     sendOk \in TmuxAnswers :
    LET leaderStale == IF preComputedLeaderStale # Absent
                       THEN preComputedLeaderStale[1] ELSE FALSE
    IN \E run \in {runTeams(1, [mem |-> nudgeDoc,
                                teams |-> [t \in NudgeTeams |->
                                             Skipped("unreached")],
                                thrown |-> FALSE],
                            leaderStale, alive, sendOk)} :
         /\ lastRun' = [ran |-> TRUE,
                        leaderStale |-> leaderStale,
                        teams |-> run.teams,
                        completed |-> ~run.thrown,
                        written |-> ~run.thrown]
         /\ nudgeDoc' = IF run.thrown THEN nudgeDoc ELSE run.mem
         /\ sentNudges' =
              [t \in NudgeTeams |->
                 IF run.teams[t].status = "sent"
                 THEN Set([at |-> nowMs,
                           messages |-> Len(leaderMailbox[t])])
                 ELSE sentNudges[t]]
         /\ UNCHANGED <<nudgeEnv, teamDocs, leaderMailbox, nowMs>>

\* The number of messages in the leaders' mailboxes of teams i..n.
RECURSIVE leaderMessages(_)
leaderMessages(i) ==
  IF i > Len(TeamNames) THEN 0
  ELSE Len(leaderMailbox[TeamNames[i]]) + leaderMessages(i + 1)

\* A worker's message is appended to the leader's mailbox of a team.
LeaderMessageArrives(teamName) ==
  /\ leaderMessages(1) < MaxMessages
  /\ leaderMailbox' =
       [leaderMailbox EXCEPT ![teamName] =
          Append(@, [message_id |-> Len(@) + 1])]
  /\ lastRun' = NoRun
  /\ UNCHANGED <<nudgeEnv, teamDocs, nudgeDoc, nowMs, sentNudges>>

\* A team ends: its team-state.json is written with active false.
TeamEnds(teamName) ==
  /\ teamDocs[teamName].active
  /\ teamDocs' = [teamDocs EXCEPT ![teamName].active = FALSE]
  /\ lastRun' = NoRun
  /\ UNCHANGED <<nudgeEnv, leaderMailbox, nudgeDoc, nowMs, sentNudges>>

\* Time passes until the leader's next turn.
LeaderTurnPasses ==
  /\ nowMs < MaxTicks * TickMs
  /\ nowMs' = nowMs + TickMs
  /\ lastRun' = NoRun
  /\ UNCHANGED <<nudgeEnv, teamDocs, leaderMailbox, nudgeDoc, sentNudges>>

\* ------------------------------------------- Part 3b: the two resolvers
\* OMX_TEAM_LEADER_STALE_MS, and what the two resolvers returned.
VARIABLES staleEnv, resolved
resolveVars == <<staleEnv, resolved>>

\* Texts around the two ends of the range and the defaults.
EnvTexts ==
  {EnvUnset, EnvText}
    \cup { EnvNumber(n) :
             n \in {0 - 1, 0, MinIntervalMs - 1, MinIntervalMs,
                    MinIntervalMs + 1, TickMs, DefaultIntervalMs,
                    DefaultStalenessMs, MaxIntervalMs - 1, MaxIntervalMs,
                    MaxIntervalMs + 1} }

NotResolved == [intervalMs |-> Absent, thresholdMs |-> Absent]

ResolveIdle == staleEnv = EnvUnset /\ resolved = NotResolved

ResolveInterval ==
  /\ resolved' = [resolved EXCEPT
                    !.intervalMs = Set(resolveLeaderNudgeIntervalMs(nudgeEnv))]
  /\ UNCHANGED <<staleEnv, nudgeVars>>

ResolveThreshold ==
  /\ resolved' = [resolved EXCEPT
                    !.thresholdMs =
                      Set(resolveLeaderStalenessThresholdMs(staleEnv))]
  /\ UNCHANGED <<staleEnv, nudgeVars>>

\* ==================================================== Part 4: health check
\* `omx doctor --team`. cli/doctor.js is not among the sources: the checks
\* follow section 4.5 of the specification and cli/__tests__/index.test.ts.

\* Thresholds of slow_shutdown and delayed_status_lag.
ShutdownThresholdMs == 30000
LagThresholdMs == 60000

SessionPrefix == "omx-team-"
\* A tmux session name, as its prefix and the rest.
TeamSession(name) == <<SessionPrefix, name>>
OtherSession == <<"", "main">>
HealthTeam == "alpha"
HealthWorker == "worker-1"
\* Sessions tmux may list.
SessionNames == {TeamSession(HealthTeam), TeamSession("orphan"), OtherSession}

\* tmux list-sessions: the binary is missing, it reports that no server is
\* running, or it lists the live sessions (possibly none).
TmuxStates ==
  { [status |-> "absent", sessions |-> {}],
    [status |-> "no_server", sessions |-> {}] }
    \cup { [status |-> "ok", sessions |-> live] : live \in SUBSET SessionNames }

\* workers/worker-1: status.json, heartbeat.json, shutdown-request.json and
\* shutdown-ack.json.
WorkerDocs ==
  { w \in [state : {"working", "idle"},
           last_turn_at : {Absent, Set(0)},
           requested_at : {Absent, Set(0)},
           acked : BOOLEAN] :
      w.acked => w.requested_at # Absent }

\* .omx/state/team/alpha: no team, or config.json and the worker's documents.
TeamStores ==
  {Absent}
    \cup { Set([name |-> HealthTeam,
                tmux_session |-> TeamSession(HealthTeam),
                worker |-> w]) : w \in WorkerDocs }

\* Date.now() of a run of the check, around the two thresholds.
HealthNows ==
  { ShutdownThresholdMs - 1, ShutdownThresholdMs, ShutdownThresholdMs + 1,
    LagThresholdMs - 1, LagThresholdMs, LagThresholdMs + 1 }

matchesNamingConvention(session) == session[1] = SessionPrefix

\* Mutant: the session checks run whatever tmux answered.
sessionChecksRun_Always(tmux) == TRUE

\* The session checks are skipped unless tmux listed its sessions.
sessionChecksRun(tmux) == tmux.status = "ok"

\* Mutant: a live recorded session is a blocker too.
isResumeBlocker_LiveToo(record, sessions) == TRUE

isResumeBlocker(record, sessions) == record.tmux_session \notin sessions

\* Mutant: a session with a team record is an orphan too.
isOrphan_RecordedToo(session, store) == matchesNamingConvention(session)

isOrphan(session, store) ==
  /\ matchesNamingConvention(session)
  /\ ~(store # Absent /\ store[1].tmux_session = session)

\* Mutant: an acknowledged request counts as pending.
isSlowShutdown_AckIgnored(worker, nowAt) ==
  /\ worker.requested_at # Absent
  /\ nowAt - worker.requested_at[1] > ShutdownThresholdMs

isSlowShutdown(worker, nowAt) ==
  /\ worker.requested_at # Absent
  /\ ~worker.acked
  /\ nowAt - worker.requested_at[1] > ShutdownThresholdMs

\* Mutant: an old heartbeat counts whatever the worker's status.
isDelayedStatusLag_AnyStatus(worker, nowAt) ==
  /\ worker.last_turn_at # Absent
  /\ nowAt - worker.last_turn_at[1] >= LagThresholdMs

isDelayedStatusLag(worker, nowAt) ==
  /\ worker.state = "working"
  /\ worker.last_turn_at # Absent
  /\ nowAt - worker.last_turn_at[1] >= LagThresholdMs

Finding(tag, subject) == [tag |-> tag, subject |-> subject]

\* The findings of one run: one per firing check and subject.
teamFindings(tmux, store, nowAt) ==
  { Finding("resume_blocker", store[1].tmux_session) : x \in
      { y \in {1} : /\ sessionChecksRun(tmux)
                    /\ store # Absent
                    /\ isResumeBlocker(store[1], tmux.sessions) } }
    \cup { Finding("orphan_tmux_session", session) : session \in
             { y \in tmux.sessions :
                 sessionChecksRun(tmux) /\ isOrphan(y, store) } }
    \cup { Finding("slow_shutdown", HealthWorker) : x \in
             { y \in {1} : /\ store # Absent
                           /\ isSlowShutdown(store[1].worker, nowAt) } }
    \cup { Finding("delayed_status_lag", HealthWorker) : x \in
             { y \in {1} : /\ store # Absent
                           /\ isDelayedStatusLag(store[1].worker, nowAt) } }

\* Mutant: only the session checks set the exit status.
exitStatus_SessionChecksOnly(findings) ==
  IF \E f \in findings : f.tag \in {"resume_blocker", "orphan_tmux_session"}
  THEN 1 ELSE 0

exitStatus(findings) == IF findings = {} THEN 0 ELSE 1

VARIABLES tmuxServer, teamStore, doctorOut
healthVars == <<tmuxServer, teamStore, doctorOut>>

NoDoctorRun == [ran |-> FALSE]

HealthIdle ==
  /\ tmuxServer = [status |-> "absent", sessions |-> {}]
  /\ teamStore = Absent
  /\ doctorOut = NoDoctorRun

HealthInit ==
  /\ tmuxServer \in TmuxStates
  /\ teamStore \in TeamStores
  /\ doctorOut = NoDoctorRun

\* omx doctor --team: prints one line per finding and sets the exit status.
doctor ==
  \E nowAt \in HealthNows :
    \E findings \in {teamFindings(tmuxServer, teamStore, nowAt)} :
      /\ doctorOut' = [ran |-> TRUE, now |-> nowAt,
                       printed |-> {f.tag : f \in findings},
                       findings |-> findings,
                       status |-> exitStatus(findings)]
      /\ UNCHANGED <<tmuxServer, teamStore>>

\* ==================================================== Part 5: worker panes
\* team/tmux-session.js is not among the sources: sendToWorker, killWorker
\* and killWorkerByPaneId follow section 4.2 of the specification and the
\* tests of tmux-session (src/unnamed/part_009, from line 84).

\* sendToWorker: a text must be shorter than this.
SendTextLimit == 200
\* Length of the reserved marker [OMX_TMUX_INJECT].
InjectionMarkerLength == 17

\* A text: its ordinary characters and the markers it contains.
Texts ==
  [chars : {1, SendTextLimit - InjectionMarkerLength - 1,
            SendTextLimit - InjectionMarkerLength, SendTextLimit - 1,
            SendTextLimit, SendTextLimit + 1},
   markers : {0, 1}]

textLength(text) == text.chars + text.markers * InjectionMarkerLength
containsMarker(text) == text.markers > 0

\* A pane id: '%' and a number, or some other text.
PaneId(n) == <<"%", n>>
InvalidPaneId == <<"", "invalid">>
LeaderPane == PaneId("5")
WorkerPane == PaneId("6")
PaneArgs == {LeaderPane, WorkerPane, InvalidPaneId}

isPaneId(paneId) == paneId[1] = "%"

\* Mutant: only texts longer than the limit are rejected.
textTooLong_Over(text) == textLength(text) > SendTextLimit

textTooLong(text) == textLength(text) >= SendTextLimit

\* What a call did: the tmux commands it issued and how it returned.
PaneResult(op, args, issued, returned) ==
  [op |-> op, args |-> args, issued |-> issued, returned |-> returned]

\* On success: the literal text and two submit keys.
sendToWorkerResult(text, tmuxUp) ==
  IF textTooLong(text)
  THEN PaneResult("sendToWorker", text, <<>>, "threw: text must be < 200")
  ELSE IF containsMarker(text)
  THEN PaneResult("sendToWorker", text, <<>>, "threw: injection marker")
  ELSE IF tmuxUp
  THEN PaneResult("sendToWorker", text,
                  <<"send-keys -l", "send-keys C-m", "send-keys C-m">>,
                  "returned")
  ELSE PaneResult("sendToWorker", text, <<"send-keys -l">>,
                  "threw: send failed")

\* Mutant: the guard compares nothing.
isLeaderPane_Never(workerPaneId, leaderPaneId) == FALSE

\* if (leaderPaneId && workerPaneId === leaderPaneId) return;
isLeaderPane(workerPaneId, leaderPaneId) ==
  leaderPaneId # Absent /\ workerPaneId = leaderPaneId

\* Mutant: a text that is no pane id is handed to tmux as well.
killablePaneId_Any(workerPaneId) == TRUE

\* killWorkerByPaneId leaves a text that is no pane id alone.
killablePaneId(workerPaneId) == isPaneId(workerPaneId)

killWorkerByPaneIdIssues(workerPaneId, leaderPaneId) ==
  IF ~killablePaneId(workerPaneId) THEN <<>>
  ELSE IF isLeaderPane(Set(workerPaneId), leaderPaneId) THEN <<>>
  ELSE <<"kill-pane">>

\* killWorker interrupts the worker and then kills its pane.
killWorkerIssues(workerPaneId, leaderPaneId) ==
  IF isLeaderPane(workerPaneId, leaderPaneId) THEN <<>>
  ELSE <<"send-keys C-c", "kill-pane">>

VARIABLES panes, paneCall
paneVars == <<panes, paneCall>>

NoPaneCall == PaneResult("none", <<>>, <<>>, "none")

PaneInit ==
  /\ panes = {LeaderPane, WorkerPane}
  /\ paneCall = NoPaneCall

\* The panes left after a call that issued the commands to tmux.
panesAfter(issued, target, tmuxUp) ==
  IF tmuxUp /\ \E i \in 1..Len(issued) : issued[i] = "kill-pane"
  THEN panes \ {target}
  ELSE panes

sendToWorker ==
  \E text \in Texts, tmuxUp \in BOOLEAN :
    /\ paneCall' = sendToWorkerResult(text, tmuxUp)
    /\ UNCHANGED panes

\* killWorker(sessionName, workerIndex, workerPaneId?, leaderPaneId?); without
\* a pane id the target is the pane of the worker's index.
killWorker ==
  \E workerPaneId \in {Absent} \cup {Set(p) : p \in {LeaderPane, WorkerPane}},
     leaderPaneId \in {Absent} \cup {Set(p) : p \in {LeaderPane, WorkerPane}},
     tmuxUp \in BOOLEAN :
    \E issued \in {killWorkerIssues(workerPaneId, leaderPaneId)} :
      /\ paneCall' = PaneResult("killWorker",
                                [workerPaneId |-> workerPaneId,
                                 leaderPaneId |-> leaderPaneId],
                                issued, "returned")
      /\ panes' = panesAfter(issued,
                             IF workerPaneId # Absent THEN workerPaneId[1]
                             ELSE WorkerPane,
                             tmuxUp)

\* killWorkerByPaneId(workerPaneId, leaderPaneId?).
killWorkerByPaneId ==
  \E workerPaneId \in PaneArgs,
     leaderPaneId \in {Absent} \cup {Set(p) : p \in {LeaderPane, WorkerPane}},
     tmuxUp \in BOOLEAN :
    \E issued \in {killWorkerByPaneIdIssues(workerPaneId, leaderPaneId)} :
      /\ paneCall' = PaneResult("killWorkerByPaneId",
                                [workerPaneId |-> Set(workerPaneId),
                                 leaderPaneId |-> leaderPaneId],
                                issued, "returned")
      /\ panes' = panesAfter(issued, workerPaneId, tmuxUp)

\* ---- the queries and createTeamSession (tests of src/unnamed/part_009,
\* lines 331-368 and 413-442, 543-564)
\* What a query returned: a boolean, or the list of session names.
ReturnedBoolean(value) == IF value THEN "returned: true" ELSE "returned: false"
ReturnedSessions(names) ==
  IF names = {} THEN "returned: []" ELSE "returned: [omx-team-x]"
\* The Error createTeamSession throws without tmux.
TmuxNotAvailable == "threw: tmux is not available"
\* The session of the team the panes belong to.
PaneSession == TeamSession("x")

\* Mutant: the session list is read from the records, tmux or not.
listedSessions_WithoutTmux(tmuxUp) == IF panes # {} THEN {PaneSession} ELSE {}

\* tmux list-sessions, filtered by the prefix; [] when the command fails.
listedSessions(tmuxUp) == IF tmuxUp /\ panes # {} THEN {PaneSession} ELSE {}

\* The commands enableMouseScrolling issues: `mouse on` first, and only when
\* that succeeded the scroll/copy bindings and, under WSL2, the XT override.
enableMouseScrollingIssues(tmuxUp, wsl2) ==
  IF ~tmuxUp THEN <<"set-option mouse on">>
  ELSE IF wsl2
  THEN <<"set-option mouse on", "bind-key", "set-option terminal-overrides XT">>
  ELSE <<"set-option mouse on", "bind-key">>

\* if (!isTmuxAvailable()) throw new Error('tmux is not available')
createTeamSessionThrows(tmuxUp) == ~tmuxUp

isTmuxAvailable ==
  \E tmuxUp \in BOOLEAN :
    /\ paneCall' = PaneResult("isTmuxAvailable", [tmuxUp |-> tmuxUp],
                              <<"tmux -V">>, ReturnedBoolean(tmuxUp))
    /\ UNCHANGED panes

listTeamSessions ==
  \E tmuxUp \in BOOLEAN :
    /\ paneCall' = PaneResult("listTeamSessions", [tmuxUp |-> tmuxUp],
                              <<"list-sessions">>,
                              ReturnedSessions(listedSessions(tmuxUp)))
    /\ UNCHANGED panes

\* isWorkerAlive(sessionName, workerIndex): the worker's pane exists and is
\* not dead, whatever command it reports.
isWorkerAlive ==
  \E tmuxUp \in BOOLEAN :
    /\ paneCall' = PaneResult("isWorkerAlive", [tmuxUp |-> tmuxUp],
                              <<"list-panes">>,
                              ReturnedBoolean(tmuxUp /\ WorkerPane \in panes))
    /\ UNCHANGED panes

\* waitForWorkerReady(sessionName, workerIndex, timeoutMs): polls the pane
\* until it shows a prompt (ready) or the time is up.
waitForWorkerReady ==
  \E tmuxUp \in BOOLEAN, ready \in BOOLEAN :
    /\ paneCall' = PaneResult("waitForWorkerReady",
                              [tmuxUp |-> tmuxUp, ready |-> ready],
                              <<"capture-pane">>,
                              ReturnedBoolean(tmuxUp /\ WorkerPane \in panes /\ ready))
    /\ UNCHANGED panes

\* enableMouseScrolling(sessionTarget), on a WSL2 host or not.
enableMouseScrolling ==
  \E tmuxUp \in BOOLEAN, wsl2 \in BOOLEAN :
    /\ paneCall' = PaneResult("enableMouseScrolling",
                              [tmuxUp |-> tmuxUp, wsl2 |-> wsl2],
                              enableMouseScrollingIssues(tmuxUp, wsl2),
                              ReturnedBoolean(tmuxUp))
    /\ UNCHANGED panes

\* createTeamSession(teamName, workerCount, cwd): a session with the
\* leader's pane and a worker's pane.
createTeamSession ==
  \E tmuxUp \in BOOLEAN :
    IF createTeamSessionThrows(tmuxUp)
    THEN /\ paneCall' = PaneResult("createTeamSession", [tmuxUp |-> tmuxUp],
                                   <<>>, TmuxNotAvailable)
         /\ UNCHANGED panes
    ELSE /\ paneCall' = PaneResult("createTeamSession", [tmuxUp |-> tmuxUp],
                                   <<"new-session", "split-window">>,
                                   "returned: omx-team-x")
         /\ panes' = {LeaderPane, WorkerPane}


\* ======================================== Part 6: cancelling the modes
\* `omx cancel` (cancelModes, src/src/cli/index.ts 146-173) and the
\* turn-completion hook (scripts/notify-hook.js, src/unnamed/part_000 57-72)
\* are separate processes working on the same files .omx/state/*-state.json.
\* Every `await` is a point where the other process may run.

\* Largest iteration count a mode reaches before the turns stop.
MaxIteration == 1

\* The files readdir lists that end with -state.json, in readdir's order.
ModeFiles == <<"ralph-state.json", "team-state.json">>
\* new Date().toISOString()
Timestamp == "now"

\* What a file holds: text that JSON.parse rejects, or a mode state.
ModeDoc(active, phase, completedAt) ==
  [parses |-> TRUE, active |-> active, current_phase |-> phase,
   completed_at |-> completedAt, iteration |-> 0, last_turn_at |-> Absent]
Unparsable == [ModeDoc(FALSE, "", Absent) EXCEPT !.parses = FALSE]
ModeDocs ==
  { ModeDoc(TRUE, "executing", Absent),
    ModeDoc(FALSE, "complete", Set(Timestamp)),
    Unparsable }

\* `if (state.active)` of the hook.
hookUpdates(doc) == doc.active

\* index.ts 160-162: the three assignments of cancelModes.
cancelledState(doc) ==
  [doc EXCEPT !.active = FALSE, !.current_phase = "cancelled",
              !.completed_at = Set(Timestamp)]

\* part_000 64-65: the two assignments of the hook.
turnState(doc) ==
  [doc EXCEPT !.iteration = @ + 1, !.last_turn_at = Set(Timestamp)]

VARIABLES
  modeDocs,   \* the content of every file of ModeFiles
  cancelRun,  \* the cancel command: its position and local variables
  hookRun     \* the hook: its position and local variables

cancelVars == <<modeDocs, cancelRun, hookRun>>

NoCancelRun ==
  [pc |-> "idle", i |-> 0, state |-> Unparsable, cancelled |-> 0,
   printed |-> <<>>,
   \* not part of the command: the files when it started, and whether the
   \* hook has been at rest during the whole run
   docsBefore |-> <<>>, alone |-> TRUE]
NoHookRun == [pc |-> "idle", i |-> 0, state |-> Unparsable]

CancelIdle ==
  /\ modeDocs = [f \in DOMAIN ModeFiles |-> Unparsable]
  /\ cancelRun = NoCancelRun
  /\ hookRun = NoHookRun

CancelInit ==
  /\ modeDocs \in [DOMAIN ModeFiles -> ModeDocs]
  /\ cancelRun = NoCancelRun
  /\ hookRun = NoHookRun

NoActiveModes == "No active modes to cancel."
CancelledLine(file) == <<"Cancelled: ", file>>

\* The end of cancelModes after its loop (index.ts 167-169).
cancelReturns(run) ==
  [run EXCEPT !.pc = "done",
              !.printed = IF run.cancelled = 0 THEN Append(@, NoActiveModes)
                          ELSE @]

\* The catch of cancelModes (index.ts 170-172).
cancelCatches(run) ==
  [run EXCEPT !.pc = "done", !.printed = Append(@, NoActiveModes)]

\* The loop of cancelModes goes on with file i.
cancelLoopAt(run, i) ==
  IF i > Len(ModeFiles) THEN cancelReturns([run EXCEPT !.i = i])
  ELSE [run EXCEPT !.i = i, !.pc = "read"]

\* `omx cancel` is run: readdir has listed the files.
cancelModes ==
  /\ cancelRun.pc = "idle"
  /\ cancelRun' = cancelLoopAt([NoCancelRun EXCEPT
                                  !.docsBefore = modeDocs,
                                  !.alone = hookRun.pc \in {"idle", "done"}], 1)
  /\ UNCHANGED <<modeDocs, hookRun>>

\* index.ts 156-158: readFile, JSON.parse, `if (state.active)`.
CancelRead ==
  /\ cancelRun.pc = "read"
  /\ LET doc == modeDocs[cancelRun.i] IN
       cancelRun' =
         IF ~doc.parses THEN cancelCatches(cancelRun)
         ELSE IF doc.active
         THEN [cancelRun EXCEPT !.state = cancelledState(doc), !.pc = "write"]
         ELSE cancelLoopAt(cancelRun, cancelRun.i + 1)
  /\ UNCHANGED <<modeDocs, hookRun>>

\* index.ts 162-164: writeFile, cancelled++, the line printed.
CancelWrite ==
  /\ cancelRun.pc = "write"
  /\ modeDocs' = [modeDocs EXCEPT ![cancelRun.i] = cancelRun.state]
  /\ cancelRun' =
       cancelLoopAt([cancelRun EXCEPT
                       !.cancelled = @ + 1,
                       !.printed = Append(@, CancelledLine(ModeFiles[cancelRun.i]))],
                    cancelRun.i + 1)
  /\ UNCHANGED hookRun

\* The hook's process steps: the cancel command in flight is no longer alone.
hookSteps == [cancelRun EXCEPT !.alone = @ /\ cancelRun.pc \in {"idle", "done"}]

hookLoopAt(run, i) ==
  IF i > Len(ModeFiles) THEN [run EXCEPT !.i = i, !.pc = "done"]
  ELSE [run EXCEPT !.i = i, !.pc = "read"]

\* A turn completes and the hook is started: readdir has listed the files.
notifyHook ==
  /\ hookRun.pc \in {"idle", "done"}
  /\ \A f \in DOMAIN ModeFiles : modeDocs[f].iteration < MaxIteration
  /\ hookRun' = hookLoopAt(NoHookRun, 1)
  /\ cancelRun' = hookSteps
  /\ UNCHANGED modeDocs

\* part_000 63-64: readFile, JSON.parse, `if (state.active)`; a failure ends
\* the loop in the catch at 70.
HookRead ==
  /\ hookRun.pc = "read"
  /\ LET doc == modeDocs[hookRun.i] IN
       hookRun' =
         IF ~doc.parses THEN [hookRun EXCEPT !.pc = "done"]
         ELSE IF hookUpdates(doc)
         THEN [hookRun EXCEPT !.state = turnState(doc), !.pc = "write"]
         ELSE hookLoopAt(hookRun, hookRun.i + 1)
  /\ cancelRun' = hookSteps
  /\ UNCHANGED modeDocs

\* part_000 67: writeFile.
HookWrite ==
  /\ hookRun.pc = "write"
  /\ modeDocs' = [modeDocs EXCEPT ![hookRun.i] = hookRun.state]
  /\ hookRun' = hookLoopAt(hookRun, hookRun.i + 1)
  /\ cancelRun' = hookSteps

\* ================================= Part 7: the derived-signal watcher
\* scripts/hook-derived-watcher.js (src/docs/hooks-extension.md 102-420):
\* one tracked rollout file, the writer that appends to it, and the polls of
\* the watcher.  stat and readFile are awaited, so the writer may append
\* between them.

\* Number of lines the writer appends.
MaxLines == 3

\* The characters of a file: the text of line k, and the newline.
NL == <<"\n", 0>>
LineText(k) == <<"line", k>>
\* What the writer appends, one write at a time: line 1, its newline, ...
Written(n) == [i \in 1..n |-> IF i % 2 = 1 THEN LineText((i + 1) \div 2) ELSE NL]

\* String.prototype.slice(offset)
slice(content, offset) == SubSeq(content, offset + 1, Len(content))

\* String.prototype.split('\n'): the pieces between the newlines.
RECURSIVE split(_)
split(text) ==
  IF \A i \in 1..Len(text) : text[i] # NL THEN <<text>>
  ELSE LET n == CHOOSE i \in 1..Len(text) :
                  text[i] = NL /\ \A j \in 1..(i - 1) : text[j] # NL
       IN <<SubSeq(text, 1, n - 1)>> \o split(SubSeq(text, n + 1, Len(text)))

\* `if (!line.trim()) continue`: the lines handed to processLine.
RECURSIVE nonBlank(_)
nonBlank(lines) ==
  IF lines = <<>> THEN <<>>
  ELSE IF Head(lines) = <<>> THEN nonBlank(Tail(lines))
       ELSE <<Head(lines)>> \o nonBlank(Tail(lines))

\* All but the last piece (lines.pop() removes it).
popped(pieces) == SubSeq(pieces, 1, Len(pieces) - 1)

VARIABLES
  rollout,   \* the content of the tracked rollout file
  watcher    \* fileState's entry for it and the poll's position

watchVars == <<rollout, watcher>>

\* ensureTrackedFiles has just tracked the file (offset = its size then).
Tracked(size) ==
  [pc |-> "idle", offset |-> size, partial |-> <<>>, currentSize |-> 0,
   \* not part of fileState: the lines given to processLine so far
   processed |-> <<>>]

WatchIdle == rollout = <<>> /\ watcher = Tracked(0)

WatchInit == rollout = <<>> /\ watcher = Tracked(0)

\* The session appends to its rollout file.
appendToRollout ==
  /\ Len(rollout) < 2 * MaxLines
  /\ rollout' = Written(Len(rollout) + 1)
  /\ UNCHANGED watcher

\* pollFiles, lines 341-342: stat, and `continue` when nothing is new.
PollStat ==
  /\ watcher.pc = "idle"
  /\ watcher' = [watcher EXCEPT
                   !.currentSize = Len(rollout),
                   !.pc = IF Len(rollout) <= watcher.offset THEN "idle"
                          ELSE "readFile"]
  /\ UNCHANGED rollout

\* pollFiles, lines 344-356: readFile and the rest of the loop body.
PollRead ==
  /\ watcher.pc = "readFile"
  /\ LET content == rollout
         delta == slice(content, watcher.offset)
         lines == split(watcher.partial \o delta)
     IN watcher' =
          IF content = <<>> THEN [watcher EXCEPT !.pc = "idle"]
          ELSE [watcher EXCEPT
                  !.pc = "idle",
                  !.offset = watcher.currentSize,
                  !.partial = lines[Len(lines)],
                  !.processed = @ \o nonBlank(popped(lines))]
  /\ UNCHANGED rollout

\* ------------------------------------------------------- specifications
\* What each part leaves alone.
exceptTeamVars ==
  <<mailVars, nudgeVars, resolveVars, healthVars, paneVars, cancelVars,
    watchVars>>
exceptMailVars ==
  <<teamVars, nudgeVars, resolveVars, healthVars, paneVars, cancelVars,
    watchVars>>
exceptNudgeVars ==
  <<teamVars, mailVars, resolveVars, healthVars, paneVars, cancelVars,
    watchVars>>
exceptResolveVars == <<teamVars, mailVars, healthVars, paneVars, cancelVars,
    watchVars>>
exceptHealthVars ==
  <<teamVars, mailVars, nudgeVars, resolveVars, paneVars, cancelVars,
    watchVars>>
exceptPaneVars ==
  <<teamVars, mailVars, nudgeVars, resolveVars, healthVars, cancelVars,
    watchVars>>
exceptCancelVars ==
  <<teamVars, mailVars, nudgeVars, resolveVars, healthVars, paneVars,
    watchVars>>
exceptWatchVars ==
  <<teamVars, mailVars, nudgeVars, resolveVars, healthVars, paneVars,
    cancelVars>>
allVars ==
  <<teamVars, mailVars, nudgeVars, resolveVars, healthVars, paneVars,
    cancelVars, watchVars>>

MailNext ==
  \/ \E c \in CallIds : queueInboxInstruction(c) /\ UNCHANGED exceptMailVars
  \/ \E c \in CallIds : InboxWrite(c) /\ UNCHANGED exceptMailVars
  \/ \E c \in CallIds : InboxNotify(c) /\ UNCHANGED exceptMailVars
  \/ \E c \in CallIds : queueDirectMailboxMessage(c) /\ UNCHANGED exceptMailVars
  \/ \E c \in CallIds : DirectStore(c) /\ UNCHANGED exceptMailVars
  \/ \E c \in CallIds : DirectNotify(c) /\ UNCHANGED exceptMailVars
  \/ \E c \in CallIds : DirectMark(c) /\ UNCHANGED exceptMailVars
  \/ \E c \in CallIds : queueBroadcastMailboxMessage(c) /\ UNCHANGED exceptMailVars
  \/ \E c \in CallIds : BroadcastStore(c) /\ UNCHANGED exceptMailVars
  \/ \E c \in CallIds : BroadcastNotify(c) /\ UNCHANGED exceptMailVars
  \/ \E c \in CallIds : BroadcastMark(c) /\ UNCHANGED exceptMailVars

TeamNext ==
  \/ transitionPhase /\ UNCHANGED exceptTeamVars
  \/ transitionPhaseAgain /\ UNCHANGED exceptTeamVars
  \/ buildTerminalState /\ UNCHANGED exceptTeamVars
  \/ Tick /\ UNCHANGED exceptTeamVars

\* The team of a specification that is not about the phase state machine.
TeamIdle ==
  /\ now = 0
  /\ state = createTeamState(TaskDescription, DefaultMaxFixAttempts, 0)
  /\ input = state
  /\ before = state
  /\ request = [to |-> "team-plan", reason |-> undefined]
  /\ outcome = NoCall

\* The parts added after the mailbox layer, at rest.
OthersIdle == ResolveIdle /\ HealthIdle /\ PaneInit

TeamSpecInit ==
  TeamInit /\ MailInit /\ NudgeIdle /\ OthersIdle /\ CancelIdle /\ WatchIdle

\* The phase state machine alone.
TeamSpec == TeamSpecInit /\ [][TeamNext]_allVars

MailSpecInit ==
  TeamIdle /\ MailInit /\ NudgeIdle /\ OthersIdle /\ CancelIdle /\ WatchIdle

\* The mailbox layer alone, on a team that stays as created.
MailSpec == MailSpecInit /\ [][MailNext]_allVars

InboxRaceNext ==
  \/ \E c \in CallIds :
       queueInboxInstructionConcurrent(c) /\ UNCHANGED exceptMailVars
  \/ \E c \in CallIds : InboxWrite(c) /\ UNCHANGED exceptMailVars
  \/ \E c \in CallIds : InboxNotify(c) /\ UNCHANGED exceptMailVars

InboxRaceSpecInit ==
  TeamIdle /\ MailInit /\ NudgeIdle /\ OthersIdle /\ CancelIdle /\ WatchIdle

\* queueInboxInstruction calls in flight together.
InboxRaceSpec == InboxRaceSpecInit /\ [][InboxRaceNext]_allVars

NudgeNext ==
  \/ maybeNudgeTeamLeader /\ UNCHANGED exceptNudgeVars
  \/ \E teamName \in NudgeTeams :
       LeaderMessageArrives(teamName) /\ UNCHANGED exceptNudgeVars
  \/ LeaderTurnPasses /\ UNCHANGED exceptNudgeVars
  \/ \E teamName \in NudgeTeams :
       TeamEnds(teamName) /\ UNCHANGED exceptNudgeVars

NudgeSpecInit ==
  TeamIdle /\ MailInit /\ NudgeInit /\ OthersIdle /\ CancelIdle /\ WatchIdle

\* The leader nudge service alone.
NudgeSpec == NudgeSpecInit /\ [][NudgeNext]_allVars

ResolveNext ==
  \/ ResolveInterval /\ UNCHANGED exceptResolveVars
  \/ ResolveThreshold /\ UNCHANGED exceptResolveVars

ResolveSpecInit ==
  /\ TeamIdle /\ MailInit /\ HealthIdle /\ PaneInit
  /\ CancelIdle /\ WatchIdle
  /\ nudgeEnv \in EnvTexts
  /\ teamDocs = [t \in NudgeTeams |-> [active |-> FALSE, tmux_session |-> ""]]
  /\ leaderMailbox = [t \in NudgeTeams |-> <<>>]
  /\ nudgeDoc = [t \in NudgeTeams |-> Absent]
  /\ nowMs = 0
  /\ lastRun = NoRun
  /\ sentNudges = [t \in NudgeTeams |-> Absent]
  /\ staleEnv \in EnvTexts
  /\ resolved = NotResolved

\* The two resolvers on any setting of their environment variables.
ResolveSpec == ResolveSpecInit /\ [][ResolveNext]_allVars

HealthNext == doctor /\ UNCHANGED exceptHealthVars

HealthSpecInit ==
  TeamIdle /\ MailInit /\ NudgeIdle /\ ResolveIdle /\ PaneInit /\ HealthInit
  /\ CancelIdle /\ WatchIdle

\* The health check on any team store and tmux server.
HealthSpec == HealthSpecInit /\ [][HealthNext]_allVars

PaneNext ==
  \/ sendToWorker /\ UNCHANGED exceptPaneVars
  \/ killWorker /\ UNCHANGED exceptPaneVars
  \/ killWorkerByPaneId /\ UNCHANGED exceptPaneVars
  \/ isTmuxAvailable /\ UNCHANGED exceptPaneVars
  \/ listTeamSessions /\ UNCHANGED exceptPaneVars
  \/ isWorkerAlive /\ UNCHANGED exceptPaneVars
  \/ waitForWorkerReady /\ UNCHANGED exceptPaneVars
  \/ enableMouseScrolling /\ UNCHANGED exceptPaneVars
  \/ createTeamSession /\ UNCHANGED exceptPaneVars

PaneSpecInit ==
  TeamIdle /\ MailInit /\ NudgeIdle /\ ResolveIdle /\ HealthIdle /\ PaneInit
  /\ CancelIdle /\ WatchIdle

\* The worker pane operations.
PaneSpec == PaneSpecInit /\ [][PaneNext]_allVars

CancelNext ==
  \/ cancelModes /\ UNCHANGED exceptCancelVars
  \/ CancelRead /\ UNCHANGED exceptCancelVars
  \/ CancelWrite /\ UNCHANGED exceptCancelVars
  \/ notifyHook /\ UNCHANGED exceptCancelVars
  \/ HookRead /\ UNCHANGED exceptCancelVars
  \/ HookWrite /\ UNCHANGED exceptCancelVars

CancelSpecInit ==
  TeamIdle /\ MailInit /\ NudgeIdle /\ OthersIdle /\ CancelInit /\ WatchIdle

\* The cancel command and the turn-completion hook on the same files.
CancelSpec == CancelSpecInit /\ [][CancelNext]_allVars

WatchNext ==
  \/ appendToRollout /\ UNCHANGED exceptWatchVars
  \/ PollStat /\ UNCHANGED exceptWatchVars
  \/ PollRead /\ UNCHANGED exceptWatchVars

WatchSpecInit ==
  TeamIdle /\ MailInit /\ NudgeIdle /\ OthersIdle /\ CancelIdle /\ WatchInit

\* The watcher polling a rollout file that is being written.
WatchSpec == WatchSpecInit /\ [][WatchNext]_allVars

\* -------------------------------------------------- resumability (tests)
\* Mutant: cancelled is not counted as terminal.
isTerminalPhase_CancelledMissing(phase) == phase \in {"complete", "failed"}

isTerminalPhase(phase) == phase \in {"complete", "failed", "cancelled"}

canResumeTeamState(s) == ~isTerminalPhase(s.phase)

\* ================================================================== claims
Last(seq) == seq[Len(seq)]

\* A call has been made and has ended.
Called == outcome.kind # "none"
Returned == outcome.kind = "returned"
Threw == outcome.kind = "threw"

\* The transition table as the specification states it.
TransitionTable ==
  { <<"team-plan", "team-prd">>, <<"team-prd", "team-exec">>,
    <<"team-exec", "team-verify">>,
    <<"team-verify", "team-fix">>, <<"team-verify", "complete">>,
    <<"team-verify", "failed">>,
    <<"team-fix", "team-exec">>, <<"team-fix", "team-verify">>,
    <<"team-fix", "complete">>, <<"team-fix", "failed">> }

\* The objects of the model: the one the caller holds and the one it passed.
TeamStates == {state, input}

\* Number of records of a log that enter team-fix.
FixEntries(log) == Cardinality({i \in DOMAIN log : log[i].to = "team-fix"})

\* C1: a call throws exactly when (current phase, requested phase) is outside
\* the transition table; a call inside the table returns a state whose log is
\* the argument's log with exactly one record appended.
C1_AcceptsExactlyTheTable ==
  Called =>
    /\ Threw <=> <<before.phase, request.to>> \notin TransitionTable
    /\ Returned <=> <<before.phase, request.to>> \in TransitionTable
    /\ Returned =>
          /\ Len(state.phase_transitions) = Len(before.phase_transitions) + 1
          /\ SubSeq(state.phase_transitions, 1, Len(before.phase_transitions))
                = before.phase_transitions
          /\ input.phase_transitions = before.phase_transitions

C1_Witness ==
  /\ Returned
  /\ before.phase = "team-fix"
  /\ request.to = "team-exec"
  /\ Len(state.phase_transitions) = 5

\* C2: after any call every field of the argument has the value it had before
\* the call.
C2_InputNeverMutated == Called => input = before

\* C3: a team-fix request at the limit is not an error: it returns phase
\* failed, active false, the counter unchanged and a record from the
\* requesting phase to failed; below the limit it enters team-fix with the
\* counter one higher.
C3_FixRequest ==
  (Called /\ request.to = "team-fix" /\ before.phase = "team-verify") =>
    /\ Returned
    /\ IF before.current_fix_attempt >= before.max_fix_attempts
       THEN /\ state.phase = "failed"
            /\ state.active = FALSE
            /\ state.current_fix_attempt = before.current_fix_attempt
            /\ Last(state.phase_transitions).from = before.phase
            /\ Last(state.phase_transitions).to = "failed"
       ELSE /\ state.phase = "team-fix"
            /\ state.current_fix_attempt = before.current_fix_attempt + 1
            /\ Last(state.phase_transitions).to = "team-fix"

C3_Witness ==
  /\ Returned
  /\ request.to = "team-fix"
  /\ before.phase = "team-verify"
  /\ before.current_fix_attempt = 2
  /\ before.max_fix_attempts = 2
  /\ state.phase = "failed"

\* C4: a call on a state whose phase is complete, failed or cancelled throws
\* for every requested phase and leaves that state as it was.
C4_TerminalAbsorbing ==
  (Called /\ before.phase \in {"complete", "failed", "cancelled"}) =>
    /\ Threw
    /\ input = before

C4_Witness ==
  /\ Threw
  /\ before.phase = "cancelled"
  /\ request.to = "team-fix"

\* C5: every team state has current_fix_attempt <= max_fix_attempts.
C5_AttemptsWithinLimit ==
  \A s \in TeamStates : s.current_fix_attempt <= s.max_fix_attempts

C5_Witness ==
  /\ state.phase = "team-fix"
  /\ state.max_fix_attempts = 2
  /\ state.current_fix_attempt = 2

\* C6: every team state has one of the eight phases, and is inactive exactly
\* when its phase is terminal.
C6_PhaseAndActive ==
  \A s \in TeamStates :
    /\ s.phase \in {"team-plan", "team-prd", "team-exec", "team-verify",
                    "team-fix", "complete", "failed", "cancelled"}
    /\ (s.active = FALSE) <=> s.phase \in {"complete", "failed", "cancelled"}

C6_Witness ==
  /\ Returned
  /\ request.to = "failed"
  /\ state.phase = "failed"
  /\ state.active = FALSE

\* C7: team-fix is entered at most max_fix_attempts times, so a team's log
\* never holds more than 3 * max + 4 accepted transitions: the three to reach
\* team-verify, at most three per fix cycle and one into a terminal phase.
C7_FixLoopBounded ==
  \A s \in TeamStates :
    /\ FixEntries(s.phase_transitions) <= s.max_fix_attempts
    /\ Len(s.phase_transitions) <= 3 * s.max_fix_attempts + 4

C7_Witness ==
  /\ state.max_fix_attempts = 2
  /\ FixEntries(state.phase_transitions) = 2
  /\ Len(state.phase_transitions) = 10

\* The reason the specification gives for the overflow record.
LoopLimitReason(n) == "team-fix loop limit reached (" \o ToString(n) \o ")"

\* C8: on the overflow path the appended record carries the reason
\* "team-fix loop limit reached (N)", N = max_fix_attempts, whatever reason
\* the caller passed.
C8_OverflowReason ==
  ( /\ Returned
    /\ request.to = "team-fix"
    /\ before.current_fix_attempt >= before.max_fix_attempts ) =>
    Last(state.phase_transitions).reason = LoopLimitReason(before.max_fix_attempts)

C10_CancelAccepted ==
  (Called /\ request.to = "cancelled" /\ before.phase \in TeamPhase) =>
    /\ Returned
    /\ state.phase = "cancelled"
    /\ state.active = FALSE

\* C10 amended: cancelled is a terminal phase that transitionPhase never
\* enters: a request for cancelled throws from every phase and leaves the
\* state as it was, no record of any log leads to cancelled, and a cancelled
\* state is inactive.
C10_CancelledOnlyFromOutside ==
  /\ (Called /\ request.to = "cancelled") => (Threw /\ input = before)
  /\ \A s \in TeamStates :
        /\ \A i \in DOMAIN s.phase_transitions :
              s.phase_transitions[i].to # "cancelled"
        /\ s.phase = "cancelled" => s.active = FALSE

C10_Witness ==
  /\ Threw
  /\ request.to = "cancelled"
  /\ before.phase = "team-verify"

\* ------------------------------------------------ mailbox layer claims
\* The notifier invocations of call c.
NotificationsOf(c) == {a \in notifications : a.call = c}

\* A message without its notified_at stamp.
Unstamped(m) == [m EXCEPT !.notified_at = Absent]

IsNotified(m) == m.notified_at # Absent

\* C11: when queueInboxInstruction invokes the notifier the recipient's inbox
\* already holds the new instruction; the notifier is invoked exactly once and
\* the call returns what the notifier resolved to.
C11_WriteBeforeNotify ==
  \A c \in CallIds :
    calls[c].op = "inbox" =>
      /\ \A a \in NotificationsOf(c) :
            /\ a.worker = calls[c].to
            /\ a.inboxThen = calls[c].content
            /\ a.inboxThen # InitialInbox
      /\ Cardinality(NotificationsOf(c)) <= 1
      /\ calls[c].pc = "done" =>
            /\ Cardinality(NotificationsOf(c)) = 1
            /\ \A a \in NotificationsOf(c) : calls[c].result = Set(a.ok)
      /\ calls[c].pc # "done" => calls[c].result = Absent

C11_Witness ==
  \E c \in CallIds :
    /\ calls[c].op = "inbox"
    /\ calls[c].pc = "done"
    /\ calls[c].result = Set(FALSE)
    /\ inboxes[calls[c].to] = "# again"

\* C12: queueDirectMailboxMessage stores exactly one message, in the
\* recipient's mailbox only; its notified_at is set if and only if the
\* notifier resolved true, and stays unset when it resolved false.
C12_DirectStoresOne ==
  \A c \in CallIds :
    (calls[c].op = "direct" /\ calls[c].pc = "done") =>
      LET to == calls[c].to
          was == calls[c].mailboxesBefore IN
      /\ \A w \in Workers \ {to} : mailboxes[w] = was[w]
      /\ Len(mailboxes[to]) = Len(was[to]) + 1
      /\ SubSeq(mailboxes[to], 1, Len(was[to])) = was[to]
      /\ LET m == Last(mailboxes[to]) IN
           /\ m.to_worker = to
           /\ m.from_worker = calls[c].from
           /\ m.body = calls[c].content
           /\ \A k \in 1..Len(was[to]) : was[to][k].message_id # m.message_id
           /\ Cardinality(NotificationsOf(c)) = 1
           /\ \A a \in NotificationsOf(c) : IsNotified(m) <=> a.ok

C12_Witness ==
  \E c \in CallIds :
    /\ calls[c].op = "direct"
    /\ calls[c].pc = "done"
    /\ calls[c].notified = FALSE
    /\ Len(mailboxes[calls[c].to]) = 2
    /\ ~IsNotified(Last(mailboxes[calls[c].to]))

\* C13: queueBroadcastMailboxMessage stores exactly one message for every
\* worker of the team other than the sender and none for the sender, and
\* notified_at is set on exactly the stored messages whose recipient's
\* notification resolved true.
C13_BroadcastFansOut ==
  \A c \in CallIds :
    (calls[c].op = "broadcast" /\ calls[c].pc = "done") =>
      LET was == calls[c].mailboxesBefore IN
      /\ mailboxes[calls[c].from] = was[calls[c].from]
      /\ Len(calls[c].messages) = Cardinality(Workers \ {calls[c].from})
      /\ \A w \in Workers \ {calls[c].from} :
            /\ Len(mailboxes[w]) = Len(was[w]) + 1
            /\ SubSeq(mailboxes[w], 1, Len(was[w])) = was[w]
            /\ Last(mailboxes[w]).to_worker = w
            /\ Last(mailboxes[w]).from_worker = calls[c].from
            /\ Last(mailboxes[w]).body = calls[c].content
            /\ IsNotified(Last(mailboxes[w])) <=>
                  \E a \in NotificationsOf(c) :
                     /\ a.worker = w
                     /\ a.message = Last(mailboxes[w]).message_id
                     /\ a.ok

C13_Witness ==
  \E c \in CallIds :
    /\ calls[c].op = "broadcast"
    /\ calls[c].pc = "done"
    /\ calls[c].from = "worker-1"
    /\ calls[c].recipients = Workers
    /\ IsNotified(Last(mailboxes["worker-2"]))
    /\ Len(mailboxes["worker-3"]) = 1
    /\ ~IsNotified(Last(mailboxes["worker-3"]))
    /\ mailboxes["worker-1"] = <<>>

C15_StoreNotifyMark ==
  /\ \A a \in notifications : a.stored
  /\ \A w \in Workers : \A k \in DOMAIN mailboxes[w] :
        IsNotified(mailboxes[w][k]) =>
          [worker |-> w, message |-> mailboxes[w][k].message_id] \in acknowledged

C15_Witness ==
  \E c \in CallIds :
    /\ calls[c].op = "broadcast"
    /\ calls[c].pc = "mark"
    /\ calls[c].i = 2
    /\ ~IsNotified(Last(mailboxes[calls[c].messages[2].to_worker]))
    /\ [worker |-> calls[c].messages[2].to_worker,
        message |-> calls[c].messages[2].message_id] \in acknowledged

\* C16: no step of any of the three operations deletes a stored message or
\* changes a field of one other than notified_at.
C16_MailboxesAppendOnly ==
  [][\A w \in Workers :
       /\ Len(mailboxes'[w]) >= Len(mailboxes[w])
       /\ \A k \in DOMAIN mailboxes[w] :
             Unstamped(mailboxes'[w][k]) = Unstamped(mailboxes[w][k])]_allVars

C16_Witness ==
  \E w \in Workers :
    /\ Len(mailboxes[w]) = 2
    /\ IsNotified(mailboxes[w][1])
    /\ ~IsNotified(mailboxes[w][2])
    /\ mailboxes[w][1].from_worker # mailboxes[w][2].from_worker
    /\ \E c \in CallIds : calls[c].op = "broadcast" /\ calls[c].pc = "done"


\* ---------------------------------------------------------- nudge claims
Nudgeable(teamName) ==
  teamDocs[teamName].active /\ teamDocs[teamName].tmux_session # ""

\* The last run tried to send a nudge to the team.
Attempted(teamName) ==
  lastRun.ran /\ lastRun.teams[teamName].status \in {"sent", "failed"}

\* What the claim C17 asks of a team's record, mailbox and clock.
NudgeIsDue(record, messages, nowAt, intervalMs) ==
  \/ record = Absent
  \/ newestId(messages) # record[1].last_message_id
  \/ nowAt - record[1].at >= intervalMs

\* C17: in a run, an active team with a tmux target gets a nudge attempt
\* exactly when its leader mailbox's newest id differs from the id of its
\* nudge record, or it has no record, or the interval has elapsed since the
\* record's time; a stale leader alone does not cause one.
C17_NudgeIffNewOrDue ==
  [][lastRun'.ran =>
       \A t \in NudgeTeams :
         Nudgeable(t) =>
           (Attempted(t)' <=>
              NudgeIsDue(nudgeDoc[t], leaderMailbox[t], nowMs,
                         resolveLeaderNudgeIntervalMs(nudgeEnv)))]_allVars

\* A stale leader with live panes is left alone while another team is nudged.
C17_Witness ==
  /\ lastRun.ran
  /\ lastRun.leaderStale
  /\ \E t, u \in NudgeTeams :
       /\ Nudgeable(t)
       /\ lastRun.teams[t].status = "quiet"
       /\ lastRun.teams[t].stalePanesNudge
       /\ Len(leaderMailbox[t]) > 0
       /\ Attempted(u)

\* C18: after every nudge attempt, sent or failed, the team's persisted
\* record holds the time of the attempt and the newest message id.
C18_RecordHoldsAttempt ==
  lastRun.ran =>
    \A t \in NudgeTeams :
      Attempted(t) =>
        nudgeDoc[t] = Set([at |-> nowMs,
                           last_message_id |-> newestId(leaderMailbox[t])])

\* C19: a failed send is logged and not thrown: the run completes, every
\* other active team is still evaluated, and the state document is written
\* with the records of the teams whose send succeeded.
C19_SendFailureContained ==
  (lastRun.ran /\ \E t \in NudgeTeams : lastRun.teams[t].status = "failed")
    => /\ lastRun.completed
       /\ lastRun.written
       /\ \A t \in NudgeTeams :
            /\ lastRun.teams[t].status = "failed"
                 => lastRun.teams[t].logged = "error"
            /\ Nudgeable(t)
                 => lastRun.teams[t].status \in {"quiet", "sent", "failed"}
            /\ lastRun.teams[t].status = "sent"
                 => nudgeDoc[t] # Absent /\ nudgeDoc[t][1].at = nowMs

\* The send to the first team failed and the second team was nudged.
C19_Witness ==
  /\ lastRun.ran
  /\ lastRun.teams[TeamNames[1]].status = "failed"
  /\ lastRun.teams[TeamNames[2]].status = "sent"

ReasonOrder ==
  <<"stale_leader_with_messages", "stale_leader_panes_alive",
    "new_mailbox_message", "periodic_check">>

\* Whether a reason applies to what the run saw of a team.
ReasonApplies(reason, seen) ==
  LET newMessage == seen.newestId # NoId /\ seen.newestId # prevMsgId(seen.prev)
  IN CASE reason = "stale_leader_with_messages" ->
            seen.stalePanesNudge /\ newMessage
       [] reason = "stale_leader_panes_alive" -> seen.stalePanesNudge
       [] reason = "new_mailbox_message" -> newMessage
       [] reason = "periodic_check" -> TRUE

\* C20: every nudge carries one reason, the first of the order
\* stale-with-messages, stale-with-live-panes, new-message, periodic that
\* applies.
C20_ReasonPriority ==
  lastRun.ran =>
    \A t \in NudgeTeams :
      Attempted(t) =>
        \E i \in 1..Len(ReasonOrder) :
          /\ lastRun.teams[t].reason = ReasonOrder[i]
          /\ ReasonApplies(ReasonOrder[i], lastRun.teams[t])
          /\ \A j \in 1..(i - 1) :
               ~ReasonApplies(ReasonOrder[j], lastRun.teams[t])

\* A nudge for which the staleness reasons and the message reason all apply.
C20_Witness ==
  /\ lastRun.ran
  /\ \E t \in NudgeTeams :
       /\ Attempted(t)
       /\ lastRun.teams[t].reason = "stale_leader_with_messages"
       /\ \A i \in 1..Len(ReasonOrder) :
            ReasonApplies(ReasonOrder[i], lastRun.teams[t])
       /\ lastRun.teams[t].prev # Absent

\* C21: in a run, a team whose state is not active, or that records no tmux
\* session, gets no nudge send and no nudge event, and its nudge record
\* stays as it was.
C21_OnlyActiveTeamsNudged ==
  [][lastRun'.ran =>
       \A t \in NudgeTeams :
         ~Nudgeable(t) =>
           /\ ~Attempted(t)'
           /\ ~lastRun'.teams[t].event
           /\ lastRun'.teams[t].logged = "none"
           /\ nudgeDoc'[t] = nudgeDoc[t]]_allVars

\* A team that was nudged while active has ended with a newer message in
\* its leader's mailbox; the run passes it by and nudges the other team.
C21_Witness ==
  /\ lastRun.ran
  /\ \E t, u \in NudgeTeams :
       /\ ~teamDocs[t].active
       /\ lastRun.teams[t].status = "not_active"
       /\ nudgeDoc[t] # Absent
       /\ newestId(leaderMailbox[t]) # nudgeDoc[t][1].last_message_id
       /\ lastRun.teams[u].status = "sent"

\* ------------------------------------------------------- resolver claims
\* What the claim C22 asks of a resolver: the override when it is a number
\* of the range [10 s, 30 min], otherwise the default.
EffectiveSetting(env, default) ==
  IF env.kind = "number" /\ env.value >= 10 * 1000
                         /\ env.value <= 30 * 60 * 1000
  THEN env.value
  ELSE default

\* C22: the effective nudge interval and staleness threshold lie within
\* [10 s, 30 min]: an override that is a number inside the range is used,
\* otherwise the default applies (120 s and 180 s).
C22_SettingsWithinRange ==
  /\ resolved.intervalMs # Absent =>
       /\ resolved.intervalMs[1] = EffectiveSetting(nudgeEnv, 120 * 1000)
       /\ resolved.intervalMs[1] >= 10 * 1000
       /\ resolved.intervalMs[1] <= 30 * 60 * 1000
  /\ resolved.thresholdMs # Absent =>
       /\ resolved.thresholdMs[1] = EffectiveSetting(staleEnv, 180 * 1000)
       /\ resolved.thresholdMs[1] >= 10 * 1000
       /\ resolved.thresholdMs[1] <= 30 * 60 * 1000

\* An override at the lower end is used, one just above the upper end is not.
C22_Witness ==
  /\ nudgeEnv = EnvNumber(MinIntervalMs)
  /\ resolved.intervalMs = Set(MinIntervalMs)
  /\ staleEnv = EnvNumber(MaxIntervalMs + 1)
  /\ resolved.thresholdMs = Set(DefaultStalenessMs)

\* --------------------------------------------------- health check claims
Reported(tag, subject) ==
  doctorOut.ran /\ Finding(tag, subject) \in doctorOut.findings

Printed(tag) == doctorOut.ran /\ tag \in doctorOut.printed

TmuxListsSessions == tmuxServer.status = "ok"

SessionTags == {"resume_blocker", "orphan_tmux_session"}

CheckHolds(tag, nowAt) ==
  CASE tag = "resume_blocker" ->
         /\ TmuxListsSessions
         /\ teamStore # Absent
         /\ teamStore[1].tmux_session \notin tmuxServer.sessions
    [] tag = "orphan_tmux_session" ->
         /\ TmuxListsSessions
         /\ \E session \in tmuxServer.sessions :
              /\ session[1] = "omx-team-"
              /\ ~(teamStore # Absent /\ teamStore[1].tmux_session = session)
    [] tag = "slow_shutdown" ->
         /\ teamStore # Absent
         /\ teamStore[1].worker.requested_at # Absent
         /\ ~teamStore[1].worker.acked
         /\ nowAt - teamStore[1].worker.requested_at[1] > ShutdownThresholdMs
    [] tag = "delayed_status_lag" ->
         /\ teamStore # Absent
         /\ teamStore[1].worker.state = "working"
         /\ teamStore[1].worker.last_turn_at # Absent
         /\ nowAt - teamStore[1].worker.last_turn_at[1] >= LagThresholdMs

HealthTags ==
  {"resume_blocker", "orphan_tmux_session", "slow_shutdown",
   "delayed_status_lag"}

KillCalled == paneCall.op \in {"killWorker", "killWorkerByPaneId"}

\* A kill was called with a worker pane id and a leader pane id.
BothPaneIdsGiven ==
  /\ KillCalled
  /\ paneCall.args.workerPaneId # Absent
  /\ paneCall.args.leaderPaneId # Absent

KillAttempted ==
  \E i \in 1..Len(paneCall.issued) : paneCall.issued[i] = "kill-pane"

\* C29 as stated: called with a worker pane id equal to the leader's pane
\* id, killWorker and killWorkerByPaneId return without issuing anything to
\* tmux; with a different pane id they attempt the kill.
C29_LeaderPaneGuard ==
  BothPaneIdsGiven =>
    IF paneCall.args.workerPaneId = paneCall.args.leaderPaneId
    THEN paneCall.issued = <<>> /\ paneCall.returned = "returned"
    ELSE KillAttempted

\* C29, amended: with equal pane ids nothing is issued and the call
\* returns; with a different pane id killWorker attempts the kill, and
\* killWorkerByPaneId attempts it when the worker pane id is a tmux pane id
\* ('%' and a number) and otherwise issues nothing.
C29_LeaderPaneGuardOnPaneIds ==
  BothPaneIdsGiven =>
    IF paneCall.args.workerPaneId = paneCall.args.leaderPaneId
    THEN paneCall.issued = <<>> /\ paneCall.returned = "returned"
    ELSE IF paneCall.op = "killWorkerByPaneId"
            /\ paneCall.args.workerPaneId[1][1] # "%"
    THEN paneCall.issued = <<>> /\ paneCall.returned = "returned"
    ELSE KillAttempted

\* After the worker's pane was killed, a kill aimed at the leader's own pane
\* returns without a command and the leader's pane is still there.
C29_Witness ==
  /\ paneCall.op = "killWorker"
  /\ paneCall.args.workerPaneId = Set(LeaderPane)
  /\ paneCall.args.leaderPaneId = Set(LeaderPane)
  /\ paneCall.issued = <<>>
  /\ panes = {LeaderPane}

\* C30: sendToWorker rejects every text of 200 or more characters and every
\* text containing the marker, and a rejected call sends nothing to tmux.
C30_SendRejected ==
  paneCall.op = "sendToWorker" =>
    LET text == paneCall.args
    IN (text.chars + text.markers * InjectionMarkerLength >= 200
          \/ text.markers > 0)
         => /\ paneCall.returned \notin {"returned", "threw: send failed"}
            /\ paneCall.issued = <<>>

\* A text of exactly 200 characters without the marker is rejected.
C30_Witness ==
  /\ paneCall.op = "sendToWorker"
  /\ paneCall.args = [chars |-> 200, markers |-> 0]
  /\ paneCall.returned = "threw: text must be < 200"
  /\ paneCall.issued = <<>>

\* The read-style queries of tmux-session.
ReadQueries ==
  {"isTmuxAvailable", "listTeamSessions", "isWorkerAlive",
   "waitForWorkerReady", "enableMouseScrolling"}

\* The latest call was made in an environment without tmux.
WithoutTmux ==
  /\ paneCall.op \in ReadQueries \cup {"createTeamSession"}
  /\ ~paneCall.args.tmuxUp

\* The latest call ended with an Error.
PaneCallThrew ==
  paneCall.returned \in
    {"threw: text must be < 200", "threw: injection marker",
     "threw: send failed", "threw: tmux is not available"}

ConsistentHistory(log, phase) ==
  Len(log) > 0 =>
    /\ log[1].from = "team-plan"
    /\ \A i \in 2..Len(log) : log[i].from = log[i - 1].to
    /\ log[Len(log)].to = phase
    /\ \A i \in 1..Len(log) : <<log[i].from, log[i].to>> \in TransitionTable

IsPrefix(short, long) ==
  /\ Len(short) <= Len(long)
  /\ \A i \in 1..Len(short) : long[i] = short[i]

\* C33: the log of every team state is a consistent history (the first
\* record starts at team-plan, each record starts where the previous one
\* ended, the last one ends at the current phase, every recorded pair is in
\* the transition table), and the log a state had before a call is an
\* unchanged prefix of the log of the state the call returns, one record
\* shorter.
C33_ConsistentHistory ==
  /\ \A s \in TeamStates : ConsistentHistory(s.phase_transitions, s.phase)
  /\ Returned =>
       /\ IsPrefix(before.phase_transitions, state.phase_transitions)
       /\ Len(state.phase_transitions) = Len(before.phase_transitions) + 1
       /\ input.phase_transitions = before.phase_transitions
  /\ Threw => input.phase_transitions = before.phase_transitions

\* A team that went through a fix cycle and was then sent to failed by the
\* loop limit: five records, the last one from team-verify to failed.
C33_Witness ==
  /\ Returned
  /\ request.to = "team-fix"
  /\ state.phase = "failed"
  /\ Len(state.phase_transitions) >= 5
  /\ Last(state.phase_transitions).from = "team-verify"
  /\ Len(before.phase_transitions) = Len(state.phase_transitions) - 1

\* C34: every team state has current_fix_attempt equal to the number of the
\* records of its own log whose `to` is team-fix, also after it has been
\* passed as the argument of further calls.
C34_CounterMatchesLog ==
  \A s \in TeamStates :
    s.current_fix_attempt = FixEntries(s.phase_transitions)

\* ------------------------------------------- interleaved inbox calls
\* Call d has written its instruction to the inbox of `worker`.
HasWritten(d, worker) ==
  /\ calls[d].op = "inbox"
  /\ calls[d].to = worker
  /\ calls[d].pc \in {"notify", "done"}
  /\ \E k \in 1..(calls[d].ip - 1) : queueInboxOrder[k] = "write"

\* C35: under any interleaving of queueInboxInstruction calls, when the
\* notifier is invoked by a call the recipient's inbox holds the instruction
\* of that call, or the instruction of another call to the same worker that
\* has written it (after this call did, since the inbox no longer holds this
\* call's own); it never holds what was there before the call wrote.
C35_NotifiedInboxIsFresh ==
  \A a \in notifications :
    calls[a.call].op = "inbox" =>
      \/ /\ HasWritten(a.call, a.worker)
         /\ a.inboxThen = calls[a.call].content
      \/ /\ HasWritten(a.call, a.worker)
         /\ \E d \in CallIds \ {a.call} :
              /\ HasWritten(d, a.worker)
              /\ a.inboxThen = calls[d].content

\* Two calls to worker-1 in flight together: the first wrote "# hi", the
\* second overwrote it with "# again", and then the first one's notifier ran
\* and found the second one's instruction.
C35_Witness ==
  \E a \in notifications :
    /\ a.call = 1
    /\ a.worker = "worker-1"
    /\ calls[1].op = "inbox" /\ calls[1].content = "# hi"
    /\ calls[2].op = "inbox" /\ calls[2].to = "worker-1"
    /\ calls[2].content = "# again"
    /\ calls[2].pc = "notify"
    /\ a.inboxThen = "# again"

\* C36: a broadcast invokes the notifier only for a worker for whom it has
\* just stored a message: never for the sender, listed among the recipients
\* or not, never for a worker without a message of this broadcast in its
\* mailbox, and at most once for each recipient.
C36_BroadcastNotifiesStoredOnly ==
  \A c \in CallIds :
    calls[c].op = "broadcast" =>
      \A a \in NotificationsOf(c) :
        /\ a.worker # calls[c].from
        /\ a.stored
        /\ \E k \in DOMAIN mailboxes[a.worker] :
              /\ k > Len(calls[c].mailboxesBefore[a.worker])
              /\ mailboxes[a.worker][k].message_id = a.message
              /\ mailboxes[a.worker][k].to_worker = a.worker
              /\ mailboxes[a.worker][k].from_worker = calls[c].from
        /\ Cardinality({b \in NotificationsOf(c) : b.worker = a.worker}) = 1

\* worker-1 broadcasts and lists itself among the recipients: the call ends
\* with one notification for worker-2 and one for worker-3.
C36_Witness ==
  \E c \in CallIds :
    /\ calls[c].op = "broadcast"
    /\ calls[c].pc = "done"
    /\ calls[c].from = "worker-1"
    /\ calls[c].recipients = Workers
    /\ {a.worker : a \in NotificationsOf(c)} = {"worker-2", "worker-3"}
    /\ Cardinality(NotificationsOf(c)) = 2
    /\ mailboxes["worker-1"] = <<>>

\* ------------------------------------------------------ cancel claims
\* The cancel command has set this document to inactive and cancelled.
IsCancelled(doc) ==
  doc.parses /\ doc.active = FALSE /\ doc.current_phase = "cancelled"

\* C37: once the cancel command has set a mode's state to active = false
\* with phase cancelled, no step of a hook running at the same time writes
\* the mode back as active.
C37_CancellationStable ==
  [][\A f \in DOMAIN ModeFiles :
       IsCancelled(modeDocs[f]) => ~modeDocs'[f].active]_allVars

\* A cancel command that ran while no hook did has returned.
CancelReturnedAlone == cancelRun.pc = "done" /\ cancelRun.alone

\* C38: after the cancel command has returned no mode state document has
\* active = true, every mode that was active has current_phase = cancelled
\* and a completion time, and every mode state that was inactive is as it
\* was.
C38_CancelsEveryActiveMode ==
  CancelReturnedAlone =>
    \A f \in DOMAIN ModeFiles :
      LET was == cancelRun.docsBefore[f] IN
      /\ ~(modeDocs[f].parses /\ modeDocs[f].active)
      /\ (was.parses /\ was.active) =>
            /\ modeDocs[f].current_phase = "cancelled"
            /\ modeDocs[f].completed_at # Absent
      /\ ~(was.parses /\ was.active) => modeDocs[f] = was

\* ------------------------------------------------------ watcher claims
\* The complete lines of the file, in order, and its trailing partial line.
CompleteLines(content) == nonBlank(popped(split(content)))
TrailingPartial(content) == Last(split(content))

\* C39: the watcher handles every complete line appended to the tracked file
\* exactly once: at every moment the lines it has processed are the first
\* complete lines of the file, each once and in order, and when a poll has
\* read up to the end of the file it has processed all of them and holds the
\* trailing partial line back.
C39_EveryLineOnce ==
  /\ IsPrefix(watcher.processed, CompleteLines(rollout))
  /\ (watcher.pc = "idle" /\ watcher.offset = Len(rollout)) =>
        /\ watcher.processed = CompleteLines(rollout)
        /\ watcher.partial = TrailingPartial(rollout)


====
